---- MODULE Spec2Model ----
\* Model of binarysearchfile.py: the BinarySearchFile (sorted, searchable)
\* and BinarySequentialFile (position-oriented) record files.
\*
\* A file is the sequence of its bytes (integers 0..255).  Text values are
\* sequences of character codes (latin1, so one byte per character), integer
\* values are integers.  Python's None is NoneInt for the integer attributes
\* and the empty option <<>> for the header (<<h>> holds the bytes h).
EXTENDS Integers, Sequences, FiniteSets, TLC

\* ---------------------------------------------------------------- bounds
MaxRecs == 2
MaxWrites == 1
MaxUpdates == 1
MaxScan == 4
MaxWide == 2
MaxSeqRecs == 3

\* ------------------------------------------------------------- constants
NoneInt == -1
SPACE == 32
magic == <<254, 254, 1, 1>>
headerstart == <<66, 105, 110, 97, 114, 121, 83, 101, 97, 114, 99, 104, 70, 105, 108, 101>>
reserved == <<SPACE, SPACE, SPACE, SPACE>>
seqHeaderstart == <<66, 105, 110, 97, 114, 121, 83, 101, 113, 117, 101, 110, 116, 105, 97, 108, 70, 105, 108, 101>>
seqRecord == <<0, 10>>
seqSize == <<20, 2>>

\* --------------------------------------------------------- byte helpers
RECURSIVE Pow256(_)
Pow256(n) == IF n <= 0 THEN 1 ELSE 256 * Pow256(n - 1)

Abs(v) == IF v < 0 THEN -v ELSE v

Min2(a, b) == IF a < b THEN a ELSE b

RECURSIVE BitLength(_)
BitLength(v) == IF v = 0 THEN 0 ELSE 1 + BitLength(v \div 2)

\* _byte_length(v)
byte_length(v) == (BitLength(v) + 7) \div 8

\* int.to_bytes(s), big-endian, of a value 0 <= v < 256^s
ToBytes(v, s) == [i \in 1..s |-> (v \div Pow256(s - i)) % 256]

\* int.to_bytes(s, signed=True): two's complement
ToBytesSigned(v, s) == ToBytes((v + Pow256(s)) % Pow256(s), s)

\* int.from_bytes(bs), big-endian; b'' gives 0
RECURSIVE FromBytes(_)
FromBytes(bs) ==
    IF Len(bs) = 0 THEN 0
    ELSE 256 * FromBytes(SubSeq(bs, 1, Len(bs) - 1)) + bs[Len(bs)]

\* int.from_bytes(bs, signed=True)
FromBytesSigned(bs) ==
    IF Len(bs) = 0 THEN 0
    ELSE IF bs[1] >= 128 THEN FromBytes(bs) - Pow256(Len(bs))
    ELSE FromBytes(bs)

LJustNoPad(bs, s) == bs

\* bytes.ljust(s, b' '): never truncates
LJust(bs, s) == bs \o [i \in 1..(s - Len(bs)) |-> SPACE]

\* bytes.rstrip(b' ')
RECURSIVE RStrip(_)
RStrip(bs) ==
    IF Len(bs) = 0 THEN bs
    ELSE IF bs[Len(bs)] = SPACE THEN RStrip(SubSeq(bs, 1, Len(bs) - 1))
    ELSE bs

\* f.seek(pos); f.read(n): a read at or past the end returns fewer bytes
ReadAt(bytes, pos, n) == SubSeq(bytes, pos + 1, Min2(pos + n, Len(bytes)))

\* _rint(f, l) at position pos
rint(bytes, pos, l) == FromBytes(ReadAt(bytes, pos, l))

\* ------------------------------------------------------- type registry
IsText(code) == code \in {0, 1}

\* the exact two's-complement width: -2^(8w-1) takes w bytes
SignedLenExact(v) ==
    IF v >= 0 THEN byte_length(2 * v) ELSE byte_length(2 * (-v) - 1)

\* DTYPE[11].len
SignedLen(v) == byte_length(2 * Abs(v))

\* DTYPE[code].len applied to a value of the code's own type
DTypeLen(code, v) ==
    CASE code = 0 -> Len(v)
      [] code = 1 -> Len(v)
      [] code = 10 -> byte_length(v)
      [] code = 11 -> SignedLen(v)

\* DTYPE[code].encode(v, s)
Encode(code, v, s) ==
    CASE code = 0 -> LJust(v, s)
      [] code = 1 -> LJust(v, s)
      [] code = 10 -> ToBytes(v, s)
      [] code = 11 -> ToBytesSigned(v, s)

\* DTYPE[code].decode(bs)
Decode(code, bs) ==
    CASE code = 0 -> RStrip(bs)
      [] code = 1 -> RStrip(bs)
      [] code = 10 -> FromBytes(bs)
      [] code = 11 -> FromBytesSigned(bs)

\* ---------------------------------------------------- Python ordering
\* str < str: lexicographic by code point
RECURSIVE LexLess(_, _)
LexLess(a, b) ==
    IF Len(b) = 0 THEN FALSE
    ELSE IF Len(a) = 0 THEN TRUE
    ELSE IF a[1] # b[1] THEN a[1] < b[1]
    ELSE LexLess(Tail(a), Tail(b))

\* a < b for two values of the type of code
PyLess(code, a, b) == IF IsText(code) THEN LexLess(a, b) ELSE a < b

\* tuple < tuple: lexicographic over the fields, typed by the codes
RECURSIVE TupleLess(_, _, _)
TupleLess(codes, a, b) ==
    IF Len(codes) = 0 THEN FALSE
    ELSE IF a[1] # b[1] THEN PyLess(codes[1], a[1], b[1])
    ELSE TupleLess(Tail(codes), Tail(a), Tail(b))

\* insertion of r into a sorted list, after its equals (sorted is stable)
RECURSIVE Insert(_, _, _)
Insert(codes, s, r) ==
    IF Len(s) = 0 THEN <<r>>
    ELSE IF TupleLess(codes, r, s[1]) THEN <<r>> \o s
    ELSE <<s[1]>> \o Insert(codes, Tail(s), r)

\* sorted(data)
RECURSIVE Sorted(_, _)
Sorted(codes, data) ==
    IF Len(data) = 0 THEN <<>>
    ELSE Insert(codes, Sorted(codes, SubSeq(data, 1, Len(data) - 1)), data[Len(data)])

RECURSIVE Concat(_)
Concat(ss) == IF Len(ss) = 0 THEN <<>> ELSE ss[1] \o Concat(Tail(ss))

RECURSIVE SeqSum(_)
SeqSum(s) == IF Len(s) = 0 THEN 0 ELSE s[1] + SeqSum(Tail(s))

RECURSIVE SetMax(_)
SetMax(S) ==
    LET x == CHOOSE y \in S : TRUE
    IN IF S = {x} THEN x ELSE LET m == SetMax(S \ {x}) IN IF x > m THEN x ELSE m

\* ================================================= BinarySearchFile
VARIABLES
    schema,     \* class attribute record: the type codes of the fields
    exists,     \* os.path.exists(attr.fname)
    file,       \* the bytes of the file attr.fname
    f,          \* self.f: "None", "open", or "closed" (a closed file object)
    attr,       \* self.attr: reclen, recsize, dataoffset, metaoffset
    header,     \* self.header: <<>> for None, <<bytes>> otherwise
    record,     \* self.record: the class attribute until read_header sets it
    size,       \* self.size: <<>> for None, <<widths>> otherwise
    warnings,   \* the warnings issued so far
    ret,        \* the last top-level call: op, args, exc ("" = returned), val
    ga,         \* getall's frame: pc, key, recnum, alldata, fkey
    records,    \* history: the records given to write, plus those to update
    hdr,        \* history: the header bytes given by the caller
    valid,      \* history: the last write or update completed
    nwr,        \* history: the number of write calls
    nupd,       \* history: updates since the last write
    \* BinarySequentialFile
    sfile,      \* the bytes of the file, as the handle sees them
    spos,       \* the position of the handle self.f
    sattr,      \* self.attr
    sheader,    \* self.header
    srecord,    \* self.record: the class attribute until _read_header sets it
    ssize,      \* self.size: the class attribute until _read_header sets it
    sret,       \* the last call: op, args, exc, val
    slots,      \* history: the record last stored at each position
    scur,       \* history: the position after the record last read or written
    sappend,    \* history: the records, had every write without index appended
    sopened,    \* history: opened on an existing file, nothing written since
    sbefore     \* history: the records held before the last call, if that was
                \* a write and sopened held; <<>> otherwise

bsfVars == <<schema, exists, file, f, attr, header, record, size, warnings,
             ret, ga, records, hdr, valid, nwr, nupd>>

seqVars == <<sfile, spos, sattr, sheader, srecord, ssize, sret, slots, scur,
             sappend, sopened, sbefore>>

vars == <<bsfVars, seqVars>>

\* ------------------------------------------------------------ inputs
Schemas == {<<0, 10>>, <<11, 10>>}

\* the keys looked up: the stored ones and one between them
Probes(code) ==
    CASE code = 0 -> {<<>>, <<97>>, <<98>>}
      [] code = 1 -> {<<>>, <<97>>, <<98>>}
      [] code = 10 -> {0, 1}
      [] code = 11 -> {-1, 0, 1}

\* the records written: ('', 0), ('', 1), ('b', 1) and (-1, 0), (-1, 1), (1, 1)
Records(sch) ==
    IF IsText(sch[1]) THEN {<< <<>>, 0>>, << <<>>, 1>>, << <<98>>, 1>>}
    ELSE {<<-1, 0>>, <<-1, 1>>, <<1, 1>>}

DataLists(sch) == UNION {[1..n -> Records(sch)] : n \in 0..MaxRecs}

Headers == {<<72>>}

WideSchemas == {<<10, 11>>, <<11, 10>>}

\* records (unsigned, signed) of values around the steps of the widths
WidePairs ==
    {<<0, -129>>, <<255, -128>>, <<256, -127>>, <<0, 0>>, <<256, 128>>}

WideRecords(sch) ==
    IF sch[1] = 10 THEN WidePairs ELSE {<<p[2], p[1]>> : p \in WidePairs}

WideLists(sch) == UNION {[1..n -> WideRecords(sch)] : n \in 0..MaxWide}

\* the records given to the sequential file: ('', 0), ('a', 1), ('b', 258)
SeqRecords == {<<<<>>, 0>>, <<<<97>>, 1>>, <<<<98>>, 258>>}

\* a == b between a value of the type of code ca and one of code cb
PyEq(ca, a, cb, b) == IsText(ca) = IsText(cb) /\ a = b

\* ------------------------------------------------------------- _Attr
NoAttr == [reclen |-> NoneInt, recsize |-> NoneInt,
           dataoffset |-> NoneInt, metaoffset |-> NoneInt]

\* _Attr.len, with totalsize the current size of the file
AttrLen(a, bytes) ==
    IF a.recsize \in {0, NoneInt} THEN 0
    ELSE (Len(bytes) - a.dataoffset) \div a.recsize

\* _sizecheck
sizecheck(a, bytes) == a.dataoffset + AttrLen(a, bytes) * a.recsize = Len(bytes)

\* _check_magic: the base class compares one byte, a derived class two
check_magic(sch, bytes) ==
    IF sch = <<0, 10>> THEN ReadAt(bytes, 0, 4)[1] = magic[1]
    ELSE SubSeq(ReadAt(bytes, 0, 4), 1, 2) = SubSeq(magic, 1, 2)

\* the body of read_header: what a parse of the bytes yields
ParseHeader(bytes) ==
    LET mo == rint(bytes, 4, 2)
        do == rint(bytes, 6, 2)
        n == mo - Len(magic) - 4
        blob == IF n < 0 THEN ReadAt(bytes, 8, Len(bytes)) ELSE ReadAt(bytes, 8, n)
        tell == Min2(8, Len(bytes)) + Len(blob)
        reclen == rint(bytes, mo, 2)
        rec == [i \in 1..reclen |-> rint(bytes, mo + 2 + 3 * (i - 1), 1)]
        siz == [i \in 1..reclen |-> rint(bytes, mo + 3 + 3 * (i - 1), 2)]
    IN [metaoffset |-> mo, dataoffset |-> do, header |-> blob,
        ok |-> (tell = mo), reclen |-> reclen, record |-> rec, size |-> siz,
        recsize |-> SeqSum(siz)]

\* the fields of self after read_header returned
AttrOf(p) == [reclen |-> p.reclen, recsize |-> p.recsize,
              dataoffset |-> p.dataoffset, metaoffset |-> p.metaoffset]

\* _get_key(i) / _get_data(i): the byte position of record i
RecPos(a, i) == a.dataoffset + i * a.recsize

\* _get_key at byte position pos
KeyAt(bytes, rec, siz, pos) == Decode(rec[1], ReadAt(bytes, pos, siz[1]))

\* _get_data at byte position pos: the fields are read one after another
DataAt(bytes, rec, siz, pos) ==
    [i \in 1..Min2(Len(rec), Len(siz)) |->
        Decode(rec[i], ReadAt(bytes, pos + SeqSum(SubSeq(siz, 1, i - 1)), siz[i]))]

\* the position of the handle after n bytes were requested at pos
Advance(bytes, pos, n) ==
    IF pos >= Len(bytes) THEN pos ELSE Min2(pos + n, Len(bytes))

\* _binarysearch(f, x, hi, left), f(i) being the key of record i
RECURSIVE binarysearchLoop(_, _, _, _, _, _, _, _)
binarysearchLoop(bytes, a, rec, siz, x, lo, hi, left) ==
    IF lo < hi
    THEN LET mid == (lo + hi) \div 2
             fmid == KeyAt(bytes, rec, siz, RecPos(a, mid))
         IN IF (left /\ PyLess(rec[1], fmid, x))
               \/ (~left /\ ~PyLess(rec[1], x, fmid))
            THEN binarysearchLoop(bytes, a, rec, siz, x, mid + 1, hi, left)
            ELSE binarysearchLoop(bytes, a, rec, siz, x, lo, mid, left)
    ELSE lo - (IF left = FALSE THEN 1 ELSE 0)

binarysearch(bytes, a, rec, siz, x, hi, left) ==
    binarysearchLoop(bytes, a, rec, siz, x, 0, hi, left)

\* --------------------------------------------------------------- write
\* What write leaves in the file when self.record is rec and the records are
\* odata (read back from the file, typed by rec) followed by data (the
\* caller's, typed by sch), and the exception it ends with ("" = none).
\* A field whose len rule does not apply to the value raises after the file
\* was truncated and the header, the count and the earlier fields written.
WriteResult(rec, sch, odata, data, h) ==
    LET sd == Sorted(sch, odata \o data)
        ncols == IF Len(sd) = 0 THEN 0 ELSE Len(sd[1])
        bad(i) == Len(data) > 0 /\ IsText(rec[i]) # IsText(sch[i])
        badCols == {i \in 1..ncols : bad(i)}
        upto == IF badCols = {} THEN ncols
                ELSE (CHOOSE i \in badCols : \A j \in badCols : i <= j) - 1
        s(i) == SetMax({DTypeLen(rec[i], sd[j][i]) : j \in 1..Len(sd)})
        descs == Concat([i \in 1..upto |-> ToBytes(rec[i], 1) \o ToBytes(s(i), 2)])
        count == ToBytes(Len(rec), 2)
        blob == headerstart \o h
        metaoffset == Len(magic) + 4 + Len(blob)
        dataoffset == metaoffset + 2 + 3 * ncols
        body == Concat([j \in 1..Len(sd) |->
                    Concat([i \in 1..Len(sd[j]) |-> Encode(rec[i], sd[j][i], s(i))])])
    IN IF badCols # {}
       THEN [exc |-> "TypeError",
             bytes |-> magic \o reserved \o blob \o count \o descs]
       ELSE [exc |-> "",
             bytes |-> magic \o ToBytes(metaoffset, 2) \o ToBytes(dataoffset, 2)
                       \o blob \o count \o descs \o body]

\* ------------------------------------------- opening and read_header
Idle == [pc |-> "idle", key |-> 0, recnum |-> 0, alldata |-> <<>>,
         fcode |-> 0, fkey |-> 0]

Ret(op, args, exc, val) == [op |-> op, args |-> args, exc |-> exc, val |-> val]

\* read_header on a readable file: self.attr, self.record, self.size,
\* self.header and the warnings after it, and whether its assertion holds.
\* It parses only while attr.reclen is None.
read_header ==
    IF attr.reclen = NoneInt
    THEN LET p == ParseHeader(file)
         IN [attr |-> AttrOf(p), record |-> p.record, size |-> <<p.size>>,
             header |-> <<p.header>>, ok |-> p.ok,
             failattr |-> [attr EXCEPT !.metaoffset = p.metaoffset,
                                       !.dataoffset = p.dataoffset],
             warnings |-> warnings
                 \cup (IF ~check_magic(schema, file) THEN {"magic"} ELSE {})
                 \cup (IF p.ok /\ ~sizecheck(AttrOf(p), file) THEN {"size"} ELSE {})]
    ELSE [attr |-> attr, record |-> record, size |-> size, header |-> header,
          ok |-> TRUE, failattr |-> attr, warnings |-> warnings]

\* _open and read_header fail: a closed file object left in self.f makes the
\* first seek raise; a missing file makes open raise; a header blob that
\* does not end at metaoffset fails the assertion with the offsets and the
\* header already stored.  An exception that leaves the with block of _open
\* closes the file but skips self.f = None.
OpenFails(c) == f = "closed" \/ ~exists \/ ~c.ok

FailOpen(op, args, c) ==
    /\ IF f = "closed"
       THEN /\ ret' = Ret(op, args, "ValueError: closed file", <<>>)
            /\ UNCHANGED <<f, attr, header, warnings>>
       ELSE IF ~exists
       THEN /\ ret' = Ret(op, args, "FileNotFoundError", <<>>)
            /\ UNCHANGED <<f, attr, header, warnings>>
       ELSE /\ ret' = Ret(op, args, "AssertionError", <<>>)
            /\ f' = "closed"
            /\ attr' = c.failattr
            /\ header' = c.header
            /\ warnings' = c.warnings
    /\ UNCHANGED <<schema, exists, file, record, size, ga, records, hdr, valid,
                   nwr, nupd>>

\* the call ends after _open and read_header succeeded
Finish(op, args, exc, val, c) ==
    /\ ret' = Ret(op, args, exc, val)
    /\ f' = IF exc = "" THEN "None" ELSE "closed"
    /\ attr' = c.attr
    /\ record' = c.record
    /\ size' = c.size
    /\ header' = c.header
    /\ warnings' = c.warnings
    /\ UNCHANGED <<schema, exists, file, ga, records, hdr, valid, nwr, nupd>>

\* -------------------------------------------------------------- search
\* search after read_header: the record number, or the exception
SearchOutcome(key, first, c) ==
    LET recnum == binarysearch(file, c.attr, c.record, c.size[1], key,
                               AttrLen(c.attr, file), first)
        pos == RecPos(c.attr, recnum)
    IN IF pos < 0 THEN [exc |-> "OSError", val |-> recnum]
       ELSE IF ~PyEq(schema[1], key, c.record[1],
                     KeyAt(file, c.record, c.size[1], pos))
       THEN [exc |-> "ValueError: key not present", val |-> recnum]
       ELSE [exc |-> "", val |-> recnum]

search(key, first) ==
    /\ ga.pc = "idle"
    /\ LET c == read_header
       IN IF OpenFails(c) THEN FailOpen("search", <<key, first>>, c)
          ELSE LET o == SearchOutcome(key, first, c)
               IN Finish("search", <<key, first>>, o.exc, o.val, c)

\* get; __getitem__(item) is get(item)
get(key, first) ==
    /\ ga.pc = "idle"
    /\ LET c == read_header
       IN IF OpenFails(c) THEN FailOpen("get", <<key, first>>, c)
          ELSE LET o == SearchOutcome(key, first, c)
               IN IF o.exc # "" THEN Finish("get", <<key, first>>, o.exc, <<>>, c)
                  ELSE Finish("get", <<key, first>>, "",
                              DataAt(file, c.record, c.size[1], RecPos(c.attr, o.val)), c)

\* ---------------------------------------------------------------- read
ReadAll(bytes, a, rec, siz) ==
    [i \in 1..AttrLen(a, bytes) |-> DataAt(bytes, rec, siz, RecPos(a, i - 1))]

\* item is <<>> (None), <<i>> (an index) or <<i, j>> (a range)
read(item) ==
    /\ ga.pc = "idle"
    /\ LET c == read_header
       IN IF OpenFails(c) THEN FailOpen("read", item, c)
          ELSE IF Len(item) = 0
          THEN Finish("read", item, "", ReadAll(file, c.attr, c.record, c.size[1]), c)
          ELSE IF RecPos(c.attr, item[1]) < 0
          THEN Finish("read", item, "OSError", <<>>, c)
          ELSE IF Len(item) = 1
          THEN Finish("read", item, "",
                      DataAt(file, c.record, c.size[1], RecPos(c.attr, item[1])), c)
          ELSE Finish("read", item, "",
                      [k \in 1..(item[2] - item[1]) |->
                         DataAt(file, c.record, c.size[1],
                                RecPos(c.attr, item[1] + k - 1))], c)

\* __len__: read_header opens the file only when the header is not yet parsed
len ==
    /\ ga.pc = "idle"
    /\ IF attr.reclen = NoneInt
       THEN LET c == read_header
            IN IF OpenFails(c) THEN FailOpen("len", <<>>, c)
               ELSE Finish("len", <<>>, "", AttrLen(c.attr, file), c)
       ELSE /\ ret' = Ret("len", <<>>, "", AttrLen(attr, file))
            /\ UNCHANGED <<schema, exists, file, f, attr, header, record, size,
                           warnings, ga, records, hdr, valid, nwr, nupd>>

\* -------------------------------------------------------------- getall
\* getall up to its loop: search(key), alldata = [], fkey = key
getallCall(key) ==
    /\ ga.pc = "idle"
    /\ LET c == read_header
       IN IF OpenFails(c) THEN FailOpen("getall", <<key>>, c)
          ELSE LET o == SearchOutcome(key, TRUE, c)
               IN IF o.exc # "" THEN Finish("getall", <<key>>, o.exc, <<>>, c)
                  ELSE /\ ret' = Ret("getall", <<key>>, "running", <<>>)
                       /\ f' = "open"
                       /\ attr' = c.attr
                       /\ record' = c.record
                       /\ size' = c.size
                       /\ header' = c.header
                       /\ warnings' = c.warnings
                       /\ ga' = [pc |-> "scan", key |-> key, recnum |-> o.val,
                                 alldata |-> <<>>, fcode |-> schema[1], fkey |-> key]
                       /\ UNCHANGED <<schema, exists, file, records, hdr, valid,
                                      nwr, nupd>>

\* one test of the loop condition: either one more pass of the body
\* (_get_data(recnum), recnum += 1, fkey = _get_key() at the handle's
\* position) or the return of alldata
getallLoop ==
    /\ ga.pc = "scan"
    /\ IF PyEq(schema[1], ga.key, ga.fcode, ga.fkey)
       THEN /\ Len(ga.alldata) < MaxScan
            /\ LET pos == RecPos(attr, ga.recnum)
                   next == Advance(file, pos, attr.recsize)
               IN ga' = [ga EXCEPT
                           !.alldata = Append(@, DataAt(file, record, size[1], pos)),
                           !.recnum = @ + 1,
                           !.fcode = record[1],
                           !.fkey = KeyAt(file, record, size[1], next)]
            /\ UNCHANGED <<ret, f>>
       ELSE /\ ret' = Ret("getall", <<ga.key>>, "", ga.alldata)
            /\ f' = "None"
            /\ ga' = Idle
    /\ UNCHANGED <<schema, exists, file, attr, header, record, size, warnings,
                   records, hdr, valid, nwr, nupd>>

\* ----------------------------------------------------- write and update
write(data, h) ==
    /\ ga.pc = "idle"
    /\ nwr < MaxWrites
    /\ LET w == WriteResult(record, schema, <<>>, data, h)
       IN /\ file' = w.bytes
          /\ exists' = TRUE
          /\ ret' = Ret("write", <<h>>, w.exc, <<>>)
          /\ IF w.exc = ""
             THEN /\ attr' = NoAttr
                  /\ header' = <<>>
                  /\ records' = data
                  /\ hdr' = h
                  /\ valid' = TRUE
                  /\ nupd' = 0
             ELSE /\ valid' = FALSE
                  /\ UNCHANGED <<attr, header, records, hdr, nupd>>
    /\ nwr' = nwr + 1
    /\ UNCHANGED <<schema, f, record, size, warnings, ga>>

\* update(data, header): oh is <<>> for header=None, <<h>> for header=h
update(data, oh) ==
    /\ ga.pc = "idle"
    /\ nupd < MaxUpdates
    /\ Len(records) + Len(data) <= MaxRecs
    /\ LET c == read_header
       IN IF OpenFails(c) THEN FailOpen("update", oh, c)
          ELSE LET odata == ReadAll(file, c.attr, c.record, c.size[1])
                   h == IF Len(oh) = 0 THEN c.header[1] ELSE headerstart \o oh[1]
                   w == WriteResult(c.record, schema, odata, data, h)
               IN /\ file' = w.bytes
                  /\ ret' = Ret("update", oh, w.exc, <<>>)
                  /\ IF w.exc = ""
                     THEN /\ attr' = NoAttr
                          /\ header' = <<>>
                          /\ records' = records \o data
                          /\ hdr' = IF Len(oh) = 0 THEN hdr ELSE oh[1]
                          /\ nupd' = nupd + 1
                          /\ UNCHANGED valid
                     ELSE /\ attr' = c.attr
                          /\ header' = c.header
                          /\ valid' = FALSE
                          /\ UNCHANGED <<records, hdr, nupd>>
                  /\ f' = "None"
                  /\ record' = c.record
                  /\ size' = c.size
                  /\ warnings' = c.warnings
                  /\ UNCHANGED <<schema, exists, ga, nwr>>

\* ============================================ BinarySequentialFile
\* The handle is a buffered r+b file: every seek and read flushes what was
\* written, so sfile is the content the handle works on.

\* f.write(bs) at position pos: overwrites, extends, and zero-fills a gap
PutBytes(bytes, pos, bs) ==
    LET gap == [i \in 1..(pos - Len(bytes)) |-> 0]
        base == bytes \o gap
    IN SubSeq(base, 1, pos) \o bs \o SubSeq(base, pos + Len(bs) + 1, Len(base))

\* _write_header on the empty new file: the bytes and self.attr
seq_write_header(h) ==
    LET blob == seqHeaderstart \o h
        metaoffset == Len(magic) + 4 + Len(blob)
        reclen == Len(seqRecord)
        descs == Concat([i \in 1..reclen |->
                     ToBytes(seqRecord[i], 1) \o ToBytes(seqSize[i], 2)])
        dataoffset == metaoffset + 2 + Len(descs)
    IN [bytes |-> magic \o ToBytes(metaoffset, 2) \o ToBytes(dataoffset, 2)
                  \o blob \o ToBytes(reclen, 2) \o descs,
        header |-> blob,
        attr |-> [reclen |-> reclen, recsize |-> SeqSum(seqSize),
                  dataoffset |-> dataoffset, metaoffset |-> metaoffset]]

SeqPosBug(a, i) == a.dataoffset + i * seqSize[1]

\* the seek of write(data, i) and of _get_data(i)
SeqPos(a, i) == a.dataoffset + i * a.recsize

\* the bytes write puts out for one record
SeqEncode(data) ==
    Concat([i \in 1..Len(data) |-> Encode(srecord[i], data[i], ssize[i])])

\* the records the sequential file holds
SeqStored ==
    [i \in 1..AttrLen(sattr, sfile) |->
        DataAt(sfile, srecord, ssize, SeqPos(sattr, i - 1))]

\* write(data, i): oi is <<>> for i=None, <<i>> otherwise
seq_write(data, oi) ==
    LET pos == IF Len(oi) = 0 THEN spos ELSE SeqPos(sattr, oi[1])
        bs == SeqEncode(data)
        at == IF Len(oi) = 0 THEN scur ELSE oi[1]
    IN /\ pos + Len(bs) <= sattr.dataoffset + MaxSeqRecs * sattr.recsize
       /\ sfile' = PutBytes(sfile, pos, bs)
       /\ spos' = pos + Len(bs)
       /\ sret' = Ret("write", oi, "", <<>>)
       /\ slots' = IF at = Len(slots) THEN Append(slots, data)
                   ELSE [slots EXCEPT ![at + 1] = data]
       /\ scur' = at + 1
       /\ sappend' = IF Len(oi) = 1
                     THEN IF oi[1] < Len(sappend)
                          THEN [sappend EXCEPT ![oi[1] + 1] = data] ELSE sappend
                     ELSE IF Len(sappend) <= MaxSeqRecs
                          THEN Append(sappend, data) ELSE sappend
       /\ sopened' = FALSE
       /\ sbefore' = IF sopened THEN SeqStored ELSE <<>>
       /\ UNCHANGED <<sattr, sheader, srecord, ssize>>

\* read(): all records, from dataoffset on
seq_read_all ==
    LET n == AttrLen(sattr, sfile)
    IN /\ sret' = Ret("read", <<>>, "",
                      [i \in 1..n |-> DataAt(sfile, srecord, ssize,
                                             SeqPos(sattr, i - 1))])
       /\ sbefore' = <<>>
       /\ spos' = Advance(sfile, sattr.dataoffset, n * sattr.recsize)
       /\ scur' = Len(slots)
       /\ UNCHANGED <<sfile, sattr, sheader, srecord, ssize, slots, sappend,
                 sopened>>

\* read(i): the record at position i
seq_read(i) ==
    /\ sret' = Ret("read", <<i>>, "",
                   DataAt(sfile, srecord, ssize, SeqPos(sattr, i)))
    /\ sbefore' = <<>>
    /\ spos' = Advance(sfile, SeqPos(sattr, i), sattr.recsize)
    /\ scur' = i + 1
    /\ UNCHANGED <<sfile, sattr, sheader, srecord, ssize, slots, sappend,
                 sopened>>

\* close(), then BinarySequentialFile(fname) again: open() finds the file
\* and _read_header parses it, which leaves the handle behind the field
\* descriptors; sret.val holds the warnings issued
seq_open ==
    LET p == ParseHeader(sfile)
        a == AttrOf(p)
        w == (IF check_magic(seqRecord, sfile) THEN {} ELSE {"magic"})
             \cup (IF sizecheck(a, sfile) THEN {} ELSE {"size"})
    IN IF ~p.ok
       THEN /\ sret' = Ret("open", <<>>, "AssertionError", <<>>)
            /\ sbefore' = <<>>
            /\ UNCHANGED <<sfile, spos, sattr, sheader, srecord, ssize, slots,
                           scur, sappend, sopened>>
       ELSE /\ sattr' = a
            /\ sheader' = p.header
            /\ srecord' = p.record
            /\ ssize' = p.size
            /\ spos' = Advance(sfile, p.metaoffset, 2 + 3 * p.reclen)
            /\ sret' = Ret("open", <<>>, "", w)
            /\ scur' = 0
            /\ sopened' = TRUE
            /\ sbefore' = <<>>
            /\ UNCHANGED <<sfile, slots, sappend>>

\* ------------------------------------------------------ the machines
\* after BinarySearchFile(fname) on a path that does not exist
InitBSF(S) ==
    /\ schema \in S
    /\ exists = FALSE
    /\ file = <<>>
    /\ f = "None"
    /\ attr = NoAttr
    /\ header = <<>>
    /\ record = schema
    /\ size = <<>>
    /\ warnings = {}
    /\ ret = Ret("init", <<>>, "", <<>>)
    /\ ga = Idle
    /\ records = <<>>
    /\ hdr = <<>>
    /\ valid = FALSE
    /\ nwr = 0
    /\ nupd = 0

\* after BinarySequentialFile(fname) on a path that does not exist
InitSeq ==
    LET w == seq_write_header(<<>>)
    IN /\ sfile = w.bytes
       /\ spos = w.attr.dataoffset
       /\ sattr = w.attr
       /\ sheader = w.header
       /\ srecord = seqRecord
       /\ ssize = seqSize
       /\ sret = Ret("init", <<>>, "", <<>>)
       /\ slots = <<>>
       /\ scur = 0
       /\ sappend = <<>>
       /\ sopened = FALSE
       /\ sbefore = <<>>

Keys == Probes(schema[1])
Items == {<<>>, <<0>>, <<1>>, <<0, 2>>, <<1, 2>>}

DoWrite ==
    /\ \E data \in DataLists(schema), h \in Headers : write(data, h)
    /\ UNCHANGED seqVars
DoUpdate ==
    /\ \E data \in DataLists(schema), oh \in {<<>>} \cup {<<h>> : h \in Headers} :
          update(data, oh)
    /\ UNCHANGED seqVars
DoSearch ==
    /\ \E key \in Keys, first \in BOOLEAN : search(key, first)
    /\ UNCHANGED seqVars
DoGet ==
    /\ \E key \in Keys, first \in BOOLEAN : get(key, first)
    /\ UNCHANGED seqVars
DoGetAll ==
    /\ \E key \in Keys : getallCall(key)
    /\ UNCHANGED seqVars
DoGetAllLoop ==
    /\ getallLoop
    /\ UNCHANGED seqVars
DoRead ==
    /\ \E item \in Items : read(item)
    /\ UNCHANGED seqVars
DoLen ==
    /\ len
    /\ UNCHANGED seqVars
DoWriteWide ==
    /\ \E data \in WideLists(schema), h \in Headers : write(data, h)
    /\ UNCHANGED seqVars

DoSeqWrite ==
    /\ \E data \in SeqRecords : seq_write(data, <<>>)
    /\ UNCHANGED bsfVars
DoSeqWriteAt ==
    /\ \E data \in SeqRecords, i \in 0..(AttrLen(sattr, sfile) - 1) :
          seq_write(data, <<i>>)
    /\ UNCHANGED bsfVars
DoSeqReadAll ==
    /\ seq_read_all
    /\ UNCHANGED bsfVars
DoSeqRead ==
    /\ \E i \in 0..(AttrLen(sattr, sfile) - 1) : seq_read(i)
    /\ UNCHANGED bsfVars
DoSeqOpen ==
    /\ seq_open
    /\ UNCHANGED bsfVars

Init == InitBSF(Schemas) /\ InitSeq

Next ==
    \/ DoWrite
    \/ DoUpdate
    \/ DoSearch
    \/ DoGet
    \/ DoGetAll
    \/ DoGetAllLoop
    \/ DoRead
    \/ DoLen

Spec == Init /\ [][Next]_vars

\* the operations that change the file, with len and search for the
\* cached header and the handle a failed lookup leaves behind
InitStore == InitBSF(Schemas) /\ InitSeq

NextStore ==
    \/ DoWrite
    \/ DoUpdate
    \/ DoLen
    \/ DoSearch

SpecStore == InitStore /\ [][NextStore]_vars

\* writes of values around the width steps, and the header read back
InitWidth == InitBSF(WideSchemas) /\ InitSeq

NextWidth ==
    \/ DoWriteWide
    \/ DoLen

SpecWidth == InitWidth /\ [][NextWidth]_vars

\* the sequential file
InitSeqFile == InitBSF({<<0, 10>>}) /\ InitSeq

NextSeq ==
    \/ DoSeqWrite
    \/ DoSeqWriteAt
    \/ DoSeqReadAll
    \/ DoSeqRead

SpecSeq == InitSeqFile /\ [][NextSeq]_vars

\* the sequential file, closed and opened again at any time
InitSeqOpen == InitBSF({<<0, 10>>}) /\ InitSeq

NextSeqOpen ==
    \/ DoSeqWrite
    \/ DoSeqWriteAt
    \/ DoSeqReadAll
    \/ DoSeqRead
    \/ DoSeqOpen

SpecSeqOpen == InitSeqOpen /\ [][NextSeqOpen]_vars

\* ====================================================== the claims
\* What the caller expects of a file made by write(records, hdr)
SortedRecords == Sorted(schema, records)
KeyIdx(key) == {i \in 1..Len(SortedRecords) : SortedRecords[i][1] = key}
Present(key) == KeyIdx(key) # {}
SetMin(S) == CHOOSE x \in S : \A y \in S : x <= y
Run(key) == SubSeq(SortedRecords, SetMin(KeyIdx(key)), SetMax(KeyIdx(key)))
IsPrefix(a, b) == Len(a) <= Len(b) /\ SubSeq(b, 1, Len(a)) = a

\* C1: on a file made by write, search of a stored key returns the smallest
\* (first=True) or the largest (first=False) record number with that key.
C1_SearchFindsBoundary ==
    (valid /\ ret.op = "search" /\ Present(ret.args[1])
     /\ ret.exc # "ValueError: closed file")
    => /\ ret.exc = ""
       /\ ret.val = (IF ret.args[2] THEN SetMin(KeyIdx(ret.args[1]))
                     ELSE SetMax(KeyIdx(ret.args[1]))) - 1

\* C2: on a file made by write, search and get of a key that no record has
\* raise the key-not-found error and return nothing.
C2_AbsentKeyRaises ==
    (valid /\ ret.op \in {"search", "get"} /\ ~Present(ret.args[1])
     /\ ret.exc # "ValueError: closed file")
    => ret.exc = "ValueError: key not present"

\* C3: write(records) followed by read() returns sorted(records).
C3_ReadReturnsSorted ==
    (valid /\ nupd = 0 /\ ret.op = "read" /\ ret.args = <<>>
     /\ ret.exc # "ValueError: closed file")
    => /\ ret.exc = ""
       /\ ret.val = SortedRecords

\* C4: getall of a stored key returns exactly the run of the records with
\* that key, in stored order, and collects nothing else on the way.
C4_GetAllReturnsRun ==
    /\ (valid /\ ret.op = "getall" /\ Present(ret.args[1])
        /\ ret.exc # "ValueError: closed file")
       => /\ ret.exc \in {"", "running"}
          /\ ret.exc = "" => ret.val = Run(ret.args[1])
    /\ (valid /\ ga.pc = "scan" /\ Present(ga.key))
       => IsPrefix(ga.alldata, Run(ga.key))

\* C5: after update(new_records) the file is the one a single
\* write(old_records + new_records, h) produces.
C5_UpdateEqualsWrite ==
    (valid /\ ret.op = "update" /\ ret.exc = "" /\ ret.args = <<>>)
    => file = WriteResult(schema, schema, <<>>, records, hdr).bytes

\* C6: once a top-level call has returned or raised, the controller holds
\* no file handle.
C6_HandleReleased == ga.pc = "idle" => f = "None"

\* C7: after a write or update that completed, the offsets and the stride
\* parsed back from the file satisfy dataoffset + count * stride = size of
\* the file, and no size-inconsistency warning is ever issued.
C7_SizeConsistent ==
    /\ (ret.op \in {"write", "update"} /\ ret.exc = "")
       => LET p == ParseHeader(file)
          IN /\ p.ok
             /\ p.dataoffset + AttrLen(AttrOf(p), file) * p.recsize = Len(file)
    /\ "size" \notin warnings

C7_Witness ==
    /\ ret.op = "update" /\ ret.exc = ""
    /\ Len(records) >= 2
    /\ ParseHeader(file).recsize > 0
    /\ AttrLen(AttrOf(ParseHeader(file)), file) = Len(records)

\* C10: the scan of getall never goes on past the last stored record.
C10_ScanStopsAtEnd ==
    (valid /\ ga.pc = "scan") => ga.recnum <= Len(records)

\* C8 as stated: in the sequential file, read() returns the records with
\* every write without index appended after the last record and every
\* write(record, i) replacing position i only; read(p) returns element p.
C8_ReadReturnsAppended ==
    sret.op = "read"
    => IF sret.args = <<>> THEN sret.val = sappend
       ELSE /\ sret.args[1] < Len(sappend)
            /\ sret.val = sappend[sret.args[1] + 1]

\* C8 amended: a write without index stores the record at the position
\* after the record last read or written (position 0 on the new file, the
\* end after read()), appending only when that is the end; read() returns
\* at each position the record last stored there, read(p) that element.
C8_ReadReturnsStored ==
    sret.op = "read"
    => IF sret.args = <<>> THEN sret.val = slots
       ELSE sret.val = slots[sret.args[1] + 1]

C8_Witness ==
    /\ sret.op = "read" /\ sret.args = <<>>
    /\ Len(slots) >= 2
    /\ slots # sappend

\* the widths a column of values can be stored in
Widths == 0..4
Column(i) == {records[j][i] : j \in 1..Len(records)}
FitsUnsigned(v, w) == 0 <= v /\ v < Pow256(w)
FitsTwos(v, w) == -Pow256(w) <= 2 * v /\ 2 * v < Pow256(w)
FitsSymmetric(v, w) == 2 * Abs(v) < Pow256(w)
LeastWidth(Fits(_, _), col) ==
    CHOOSE w \in Widths :
        /\ \A v \in col : Fits(v, w)
        /\ \A u \in 0..(w - 1) : \E v \in col : ~Fits(v, u)

\* C9 as stated: write stores an unsigned column in the least w with
\* v < 256^w for all its values, a signed column in the least w in which
\* all its values fit as w-byte two's complement.
C9_MinimalWidth ==
    (valid /\ Len(records) > 0)
    => \A i \in 1..Len(schema) :
          ParseHeader(file).size[i] =
              IF schema[i] = 10 THEN LeastWidth(FitsUnsigned, Column(i))
              ELSE LeastWidth(FitsTwos, Column(i))

\* C9 amended: a signed column is stored in the least w with
\* 2 * |v| < 256^w for all its values, so -2^(8w-1) takes w + 1 bytes.
C9_SymmetricWidth ==
    (valid /\ Len(records) > 0)
    => \A i \in 1..Len(schema) :
          ParseHeader(file).size[i] =
              IF schema[i] = 10 THEN LeastWidth(FitsUnsigned, Column(i))
              ELSE LeastWidth(FitsSymmetric, Column(i))

C9_Witness ==
    /\ valid /\ ret.op = "len" /\ ret.exc = ""
    /\ schema = <<10, 11>>
    /\ Column(1) = {255, 256}
    /\ Column(2) = {-128, -127}
    /\ size = <<<<2, 2>>>>

\* C11: on an instance opened on a file that holds n >= 1 records, a
\* write without index, whether or not reads came before it, stores the
\* record at position n and leaves the records 0..n-1 as they were.
C11_WriteAfterOpenAppends ==
    (sret.op = "write" /\ sret.args = <<>> /\ Len(sbefore) >= 1)
    => \E data \in SeqRecords : SeqStored = Append(sbefore, data)
====
